---- MODULE Spec2Model ----
(***************************************************************************)
(* Ferris in the labyrinth (sim82/ferris_lab, src/main.rs): the character  *)
(* state, the tile layer, the A* solver, manual stepping, solution         *)
(* playback and the level (re)load, as the systems of one bevy stage.      *)
(***************************************************************************)
EXTENDS Integers, Sequences, FiniteSets, TLC

\* ------------------------------------------------------------------ sizes

\* new_x.clamp(0, 15) / new_y.clamp(0, 15): the last row and column of a level.
GRID_MAX == 15

\* TilePos and UVec2 hold u32 coordinates.  The model caps them at
\* GRID_MAX + Margin instead of u32::MAX, which leaves a band of Margin cells
\* beyond the level on the top and right.
Margin == 1

CoordMax == GRID_MAX + Margin

START_TILE == 18
END_TILE == 19

\* Timer::from_seconds(0.1, true), counted in time units of 0.05 s.
TimerPeriod == 2

\* The largest frame delta the clock delivers, in the same units.
MaxDelta == 1

\* One tile edge measured in strides of move_ferris (16.0 / STEP_SIZE in the
\* source); the model uses a short edge.
TileSteps == 1

\* The number of asset events one frame delivers at most.
MaxEvents == 1

\* The loop over the map events taken on its own: the number of events of one
\* update at most, and the number of map assets besides labyrinth.ldtk.
MaxBurst == 3
ExtraHandles == 1

Coords == 0..CoordMax
AllPos == Coords \X Coords

KeyIds == 0..2
NoKeys == <<FALSE, FALSE, FALSE>>

\* Ferris { pos, keys }
MkFerris(p, k) == [pos |-> p, keys |-> k]

\* ------------------------------------------------------------- the levels

\* The tile layers the level file can hold.  A cell maps to <<i>> for a tile
\* with texture index i and to <<>> for a cell without a tile; every cell of
\* the level that a layout does not list holds a tile with texture index 1,
\* which no rule lets the character enter.
Layout(l) ==
    CASE l = 1 ->   \* start, key 0, gate 0, goal in a row
            (<<0, 0>> :> <<18>>) @@ (<<1, 0>> :> <<5>>) @@ (<<2, 0>> :> <<2>>)
         @@ (<<3, 0>> :> <<19>>)
      [] l = 2 ->   \* the goal behind gate 1, no key 1 in the level
            (<<0, 0>> :> <<18>>) @@ (<<1, 0>> :> <<>>) @@ (<<2, 0>> :> <<3>>)
         @@ (<<3, 0>> :> <<19>>) @@ (<<0, 1>> :> <<7>>)
      [] l = 3 ->   \* start and goal on the top row, a wall between them
            (<<0, 15>> :> <<18>>) @@ (<<2, 15>> :> <<19>>)
      [] l = 4 ->   \* neither a start tile nor a goal tile
            (<<0, 0>> :> <<>>) @@ (<<1, 0>> :> <<6>>) @@ (<<0, 1>> :> <<>>)
      [] OTHER ->   \* the key lies one step away from the goal, the way
                    \* through the gate is short, the way round it is long
            (<<0, 0>> :> <<5>>) @@ (<<1, 0>> :> <<>>) @@ (<<2, 0>> :> <<>>)
         @@ (<<3, 0>> :> <<>>) @@ (<<4, 0>> :> <<2>>) @@ (<<5, 0>> :> <<19>>)
         @@ (<<3, 1>> :> <<>>) @@ (<<3, 2>> :> <<>>) @@ (<<4, 2>> :> <<>>)
         @@ (<<5, 2>> :> <<>>) @@ (<<5, 1>> :> <<>>)

\* The layouts the game is run on, and those the solver alone is run on.
Levels == 1..4
SolverLevels == 1..5

InLevel(p) == p[1] <= GRID_MAX /\ p[2] <= GRID_MAX

\* map_query.get_tile_entity(pos, LEVEL_ID, LAYER_ID) followed by
\* tile_query.get(tile_ent): <<texture_index>> of the tile at p, or <<>> when
\* the lookup is an Err (p beyond the layer, or no tile entity at p).  gone is
\* the set of cells whose tile has been despawned.
TileAt(lv, gone, p) ==
    IF ~InLevel(p) \/ p \in gone THEN <<>>
    ELSE IF p \in DOMAIN Layout(lv) THEN Layout(lv)[p]
    ELSE <<1>>

\* ------------------------------------------------------------- the solver

\* get_neighboring_pos(pos).iter().take(4).filter_map(|f| f.as_ref()): the
\* orthogonal neighbours north, south, west, east that the coordinate type can
\* hold.  The function is given the position only, so the extent of the
\* level plays no part in it.
get_neighboring_pos(p) ==
    LET x == p[1]
        y == p[2]
        n == IF y < CoordMax THEN << <<x, y + 1>> >> ELSE <<>>
        s == IF y > 0 THEN << <<x, y - 1>> >> ELSE <<>>
        w == IF x > 0 THEN << <<x - 1, y>> >> ELSE <<>>
        e == IF x < CoordMax THEN << <<x + 1, y>> >> ELSE <<>>
    IN  n \o s \o w \o e

\* SuccessorAt that lets the character through a gate whatever its keys.
SuccessorAt_any_gate(lv, gone, state, pos) ==
    LET t == TileAt(lv, gone, pos)
        new_state == MkFerris(pos, state.keys)
    IN  IF t # <<>>
        THEN IF t[1] = END_TILE \/ t[1] \in 2..4
             THEN <<new_state>>
             ELSE IF t[1] \in 5..7
                  THEN <<MkFerris(pos, [state.keys EXCEPT ![t[1] - 5 + 1] = TRUE])>>
                  ELSE <<>>
        ELSE <<new_state>>

\* SuccessorAt in which passing a gate uses up its key.
SuccessorAt_gate_uses_key(lv, gone, state, pos) ==
    LET t == TileAt(lv, gone, pos)
        new_state == MkFerris(pos, state.keys)
    IN  IF t # <<>>
        THEN IF t[1] = END_TILE
             THEN <<new_state>>
             ELSE IF t[1] \in 2..4 /\ new_state.keys[t[1] - 2 + 1]
                  THEN <<MkFerris(pos, [state.keys EXCEPT ![t[1] - 2 + 1] = FALSE])>>
                  ELSE IF t[1] \in 5..7
                       THEN <<MkFerris(pos, [state.keys EXCEPT ![t[1] - 5 + 1] = TRUE])>>
                       ELSE <<>>
        ELSE <<new_state>>

\* The body of the loop of the successors closure for one neighbour: the
\* successors (at most one) that the neighbour pos adds.
SuccessorAt(lv, gone, state, pos) ==
    LET t == TileAt(lv, gone, pos)
        new_state == MkFerris(pos, state.keys)
    IN  IF t # <<>>
        THEN IF t[1] = END_TILE \/ (t[1] \in 2..4 /\ new_state.keys[t[1] - 2 + 1])
             THEN <<new_state>>
             ELSE IF t[1] \in 5..7
                  THEN <<MkFerris(pos, [state.keys EXCEPT ![t[1] - 5 + 1] = TRUE])>>
                  ELSE <<>>
        ELSE <<new_state>>

RECURSIVE SuccessorsOver(_, _, _, _)
SuccessorsOver(lv, gone, state, ps) ==
    IF ps = <<>> THEN <<>>
    ELSE SuccessorAt(lv, gone, state, Head(ps)) \o SuccessorsOver(lv, gone, state, Tail(ps))

\* let successors = |state: &Ferris| { ... }: every edge costs 1.
successors(lv, gone, state) ==
    SuccessorsOver(lv, gone, state, get_neighboring_pos(state.pos))

Abs(i) == IF i < 0 THEN -i ELSE i

\* heuristic with the distance measured in pixels, 16 to the tile.
heuristic_in_pixels(end_pos, state) ==
    16 * (Abs(end_pos[1] - state.pos[1]) + Abs(end_pos[2] - state.pos[2]))

\* let heuristic = |state: &Ferris| { ... }
heuristic(end_pos, state) ==
    Abs(end_pos[1] - state.pos[1]) + Abs(end_pos[2] - state.pos[2])

\* let success = |state: &Ferris| state.pos == *end_pos
success(end_pos, state) == state.pos = end_pos

\* The order of the frontier among entries that SmallestCostHolder's Ord ranks
\* equal ends with the layout of the binary heap; Rank orders the states so
\* that the model can break such ties one way (tie = 0) or the other (tie = 1).
Rank(state) ==
    state.pos[1] + (CoordMax + 1) * state.pos[2]
    + (CoordMax + 1) * (CoordMax + 1)
      * ((IF state.keys[1] THEN 1 ELSE 0) + (IF state.keys[2] THEN 2 ELSE 0)
         + (IF state.keys[3] THEN 4 ELSE 0))

\* Whether heap entry a leaves the heap before entry b: the smaller estimated
\* cost first, among equal estimates the larger cost first.
Before(a, b, tie) ==
    \/ a.est < b.est
    \/ a.est = b.est /\ a.cost > b.cost
    \/ a.est = b.est /\ a.cost = b.cost
       /\ IF tie = 0 THEN Rank(a.node) <= Rank(b.node) ELSE Rank(a.node) >= Rank(b.node)

\* to_see.pop()
Pop(to_see, tie) == CHOOSE a \in to_see : \A b \in to_see : Before(a, b, tie)

\* reverse_path(&parents, |&(p, _)| p, index): the states from the start to node.
RECURSIVE reverse_path(_, _)
reverse_path(parents, node) ==
    IF parents[node].from = node THEN <<node>>
    ELSE Append(reverse_path(parents, parents[node].from), node)

\* for (successor, move_cost) in successors { ... }: a successor that is new,
\* or reached more cheaply than before, gets node as its parent and an entry
\* in the heap.
RECURSIVE Relax(_, _, _, _, _, _)
Relax(end_pos, node, cost, succs, to_see, parents) ==
    IF succs = <<>> THEN [to_see |-> to_see, parents |-> parents]
    ELSE LET successor == Head(succs)
             new_cost == cost + 1
         IN  IF successor \notin DOMAIN parents \/ parents[successor].cost > new_cost
             THEN Relax(end_pos, node, cost, Tail(succs),
                        to_see \cup {[est |-> new_cost + heuristic(end_pos, successor),
                                      cost |-> new_cost, node |-> successor]},
                        (successor :> [from |-> node, cost |-> new_cost]) @@ parents)
             ELSE Relax(end_pos, node, cost, Tail(succs), to_see, parents)

\* while let Some(SmallestCostHolder { cost, index, .. }) = to_see.pop() { ... }
\* The result is the path found, or <<>> when the heap runs empty (None).
RECURSIVE astar_loop(_, _, _, _, _, _)
astar_loop(lv, gone, end_pos, tie, to_see, parents) ==
    IF to_see = {} THEN <<>>
    ELSE LET top == Pop(to_see, tie)
             rest == to_see \ {top}
         IN  IF success(end_pos, top.node) THEN reverse_path(parents, top.node)
             ELSE IF top.cost > parents[top.node].cost
                  THEN astar_loop(lv, gone, end_pos, tie, rest, parents)
                  ELSE LET r == Relax(end_pos, top.node, top.cost,
                                      successors(lv, gone, top.node), rest, parents)
                       IN  astar_loop(lv, gone, end_pos, tie, r.to_see, r.parents)

\* astar::astar(&start_state, successors, heuristic, success)
astar(lv, gone, start_state, end_pos, tie) ==
    astar_loop(lv, gone, end_pos, tie,
               {[est |-> 0, cost |-> 0, node |-> start_state]},
               start_state :> [from |-> start_state, cost |-> 0])

\* solve that answers a failed search with the start state on its own.
solve_start_on_failure(lv, gone, start_state, end_pos, tie) ==
    LET res == astar(lv, gone, start_state, end_pos, tie)
    IN  IF res # <<>> THEN res ELSE <<start_state>>

\* fn solve(map_query, start_state, end_pos, query) -> VecDeque<Ferris>: the
\* states of the path from start_state to the goal, both included, or the
\* empty queue when astar finds none.
solve(lv, gone, start_state, end_pos, tie) ==
    LET res == astar(lv, gone, start_state, end_pos, tie)
    IN  IF res # <<>> THEN res ELSE <<>>

\* ------------------------------------------------------------- the state

VARIABLES
    level,          \* the layout the tile layer was built from
    gone,           \* the cells whose tile entity has been despawned
    ferrisCount,    \* the number of entities that carry a Ferris component
    ferris,         \* the Ferris component of the character
    stage,          \* "none", "added" (spawned, not yet seen by init_ferris),
                    \* "initing" (bundle queued) or "ready" (bundle attached)
    endPos,         \* the EndPos component
    transform,      \* Transform.translation of the sprite, in strides
    trackerChanged, \* TargetTracker was changed since play_solution last ran
    solution,       \* the Solution component; <<>> also when there is none
    timer,          \* the FerrisTimer component
    commands,       \* the Commands queued in this frame
    mapAdded,       \* the map entity's handle still counts as Added
    ran,            \* the systems that have run in this frame
    call            \* one call of solve: its arguments and its result

vars == <<level, gone, ferrisCount, ferris, stage, endPos, transform,
          trackerChanged, solution, timer, commands, mapAdded, ran, call>>

gameVars == <<level, gone, ferrisCount, ferris, stage, endPos, transform,
              trackerChanged, solution, timer, commands, mapAdded, ran>>

\* commands of a frame in which no system has queued anything: the Solution
\* to insert, the number of characters to spawn, whether the present
\* characters are despawned, the EndPos of the bundle of init_ferris.
\* reload is the layout that the level plugin rebuilds the tile layer from at
\* the end of the frame.
NoCommands == [solution |-> <<>>, spawn |-> 0, despawn |-> FALSE, bundle |-> <<>>,
               reload |-> <<>>]

\* Timer::from_seconds(0.1, true)
NewTimer == [elapsed |-> 0, just_finished |-> FALSE]

NoCall == [lv |-> 1, gone |-> {}, start |-> MkFerris(<<0, 0>>, NoKeys),
           goal |-> <<0, 0>>, tie |-> 0, done |-> FALSE, path |-> <<>>]

\* .add_system(...): the systems of the stage.
Systems == {"process_loaded_tile_maps", "init_ferris", "animate_character_system",
            "character_input", "play_solution", "move_ferris"}

\* Systems whose order within a frame can be observed are those that touch the
\* same components of a character that all of them match: character_input,
\* play_solution and move_ferris.  They run in any order; the others have a
\* fixed place in the frame.
CanRun(sys) ==
    /\ sys \notin ran
    /\ sys = "init_ferris" \/ "init_ferris" \in ran
    /\ sys \in {"init_ferris", "animate_character_system"}
       \/ "animate_character_system" \in ran
    /\ sys = "process_loaded_tile_maps"
       => {"character_input", "play_solution", "move_ferris"} \subseteq ran

Ran(sys) == ran' = ran \cup {sys}

\* -------------------------------------------------------------- init_ferris

\* for (tile, pos) in tile_query.iter() { match tile.texture_index { ... } }:
\* the cell of a tile with texture index idx, Default::default() without one.
TileCell(lv, idx) ==
    IF \E p \in DOMAIN Layout(lv) : Layout(lv)[p] = <<idx>>
    THEN CHOOSE p \in DOMAIN Layout(lv) : Layout(lv)[p] = <<idx>>
    ELSE <<0, 0>>

\* init_ferris that leaves the character where it was spawned.
init_ferris_leaves_pos ==
    /\ CanRun("init_ferris")
    /\ Ran("init_ferris")
    /\ IF stage = "added"
       THEN /\ commands' = [commands EXCEPT !.bundle = <<TileCell(level, END_TILE)>>]
            /\ stage' = "initing"
       ELSE UNCHANGED <<commands, stage>>
    /\ UNCHANGED <<level, gone, ferrisCount, ferris, endPos, transform, trackerChanged,
                   solution, timer, mapAdded, call>>

\* fn init_ferris: for every character that was added since the last run.
init_ferris ==
    /\ CanRun("init_ferris")
    /\ Ran("init_ferris")
    /\ IF stage = "added"
       THEN /\ ferris' = [ferris EXCEPT !.pos = TileCell(level, START_TILE)]
            /\ commands' = [commands EXCEPT !.bundle = <<TileCell(level, END_TILE)>>]
            /\ stage' = "initing"
       ELSE UNCHANGED <<ferris, commands, stage>>
    /\ UNCHANGED <<level, gone, ferrisCount, endPos, transform, trackerChanged,
                   solution, timer, mapAdded, call>>

\* ------------------------------------------------- animate_character_system

\* timer.0.tick(time.delta()) of the repeating FerrisTimer.
Tick(t, delta) ==
    [elapsed |-> (t.elapsed + delta) % TimerPeriod,
     just_finished |-> t.elapsed + delta >= TimerPeriod]

\* fn animate_character_system.  The frame of the sprite that it picks is
\* part of the picture and not of this model.
animate_character_system ==
    /\ CanRun("animate_character_system")
    /\ Ran("animate_character_system")
    /\ IF stage = "ready"
       THEN \E delta \in 1..MaxDelta : timer' = Tick(timer, delta)
       ELSE UNCHANGED timer
    /\ UNCHANGED <<level, gone, ferrisCount, ferris, stage, endPos, transform,
                   trackerChanged, solution, commands, mapAdded, call>>

\* ---------------------------------------------------------- character_input

\* The key codes that character_input tells apart.
KeyCodes == {"Up", "Down", "Left", "Right", "R"}

\* fn is_walkable_tile(texture_index: u16) -> bool
is_walkable_tile(texture_index) ==
    texture_index \in 5..7 \/ texture_index = START_TILE \/ texture_index = END_TILE

\* i32::clamp
Clamp(v, lo, hi) == IF v < lo THEN lo ELSE IF v > hi THEN hi ELSE v

\* new_x and new_y once the loop over get_just_pressed() is through and both
\* are clamped: the cell new_pos.
NewPos(pos, pressed) ==
    LET new_x == pos[1] - (IF "Left" \in pressed THEN 1 ELSE 0)
                        + (IF "Right" \in pressed THEN 1 ELSE 0)
        new_y == pos[2] + (IF "Up" \in pressed THEN 1 ELSE 0)
                        - (IF "Down" \in pressed THEN 1 ELSE 0)
    IN  <<Clamp(new_x, 0, GRID_MAX), Clamp(new_y, 0, GRID_MAX)>>

\* Requested without the pop_front.
Requested_keeps_front(lv, gn, f, end_pos, tie) == solve(lv, gn, f, end_pos, tie)

\* let mut solution = solve(...); solution.pop_front();
Requested(lv, gn, f, end_pos, tie) ==
    LET sol == solve(lv, gn, f, end_pos, tie)
    IN  IF sol = <<>> THEN <<>> ELSE Tail(sol)

\* Step that leaves every tile in place.
Step_keeps_tiles(lv, gn, f, new_pos) ==
    LET t == TileAt(lv, gn, new_pos)
        isKey == t # <<>> /\ t[1] \in 5..7
        isGate == t # <<>> /\ t[1] \in 2..4
        keys == IF isKey THEN [f.keys EXCEPT ![t[1] - 5 + 1] = TRUE] ELSE f.keys
        can_move == IF t = <<>> THEN TRUE
                    ELSE IF isGate THEN keys[t[1] - 2 + 1]
                    ELSE is_walkable_tile(t[1])
    IN  [ferris |-> MkFerris(IF can_move THEN new_pos ELSE f.pos, keys), gone |-> gn]

\* Step for which every gate is open.
Step_opens_gates(lv, gn, f, new_pos) ==
    LET t == TileAt(lv, gn, new_pos)
        isKey == t # <<>> /\ t[1] \in 5..7
        isGate == t # <<>> /\ t[1] \in 2..4
        keys == IF isKey THEN [f.keys EXCEPT ![t[1] - 5 + 1] = TRUE] ELSE f.keys
        can_move == IF t = <<>> THEN TRUE
                    ELSE IF isGate THEN TRUE
                    ELSE is_walkable_tile(t[1])
        despawn == IF isGate THEN can_move ELSE isKey
    IN  [ferris |-> MkFerris(IF can_move THEN new_pos ELSE f.pos, keys),
         gone |-> IF despawn THEN gn \cup {new_pos} ELSE gn]

\* Lines 312 to 337: the step onto new_pos.  The result holds the character
\* and the set of despawned cells after the step.
Step(lv, gn, f, new_pos) ==
    LET t == TileAt(lv, gn, new_pos)
        isKey == t # <<>> /\ t[1] \in 5..7
        isGate == t # <<>> /\ t[1] \in 2..4
        keys == IF isKey THEN [f.keys EXCEPT ![t[1] - 5 + 1] = TRUE] ELSE f.keys
        can_move == IF t = <<>> THEN TRUE
                    ELSE IF isGate THEN keys[t[1] - 2 + 1]
                    ELSE is_walkable_tile(t[1])
        despawn == IF isGate THEN can_move ELSE isKey
    IN  [ferris |-> MkFerris(IF can_move THEN new_pos ELSE f.pos, keys),
         gone |-> IF despawn THEN gn \cup {new_pos} ELSE gn]

\* fn character_input for the keys in pressed.  solve sees the character as
\* it is when the system starts, and the Solution is inserted by a command.
character_input ==
    /\ CanRun("character_input")
    /\ Ran("character_input")
    /\ IF stage = "ready"
       THEN \E pressed \in SUBSET KeyCodes, tie \in {0, 1} :
              LET r == Step(level, gone, ferris, NewPos(ferris.pos, pressed))
              IN  /\ ferris' = r.ferris
                  /\ gone' = r.gone
                  /\ IF "R" \in pressed
                     THEN /\ commands' = [commands EXCEPT !.solution =
                                 <<Requested(level, gone, ferris, endPos, tie)>>]
                          /\ trackerChanged' = TRUE
                     ELSE UNCHANGED <<commands, trackerChanged>>
       ELSE UNCHANGED <<ferris, gone, commands, trackerChanged>>
    /\ UNCHANGED <<level, ferrisCount, stage, endPos, transform, solution, timer,
                   mapAdded, call>>

\* ------------------------------------------------------------ play_solution

\* play_solution without the Changed<TargetTracker> filter.
play_solution_every_frame ==
    /\ CanRun("play_solution")
    /\ Ran("play_solution")
    /\ IF stage = "ready" /\ solution # <<>>
       THEN /\ ferris' = Head(solution)
            /\ solution' = Tail(solution)
       ELSE UNCHANGED <<ferris, solution>>
    /\ trackerChanged' = FALSE
    /\ UNCHANGED <<level, gone, ferrisCount, stage, endPos, transform, timer,
                   commands, mapAdded, call>>

\* fn play_solution: the query matches a character whose TargetTracker was
\* changed since the system last ran.
play_solution ==
    /\ CanRun("play_solution")
    /\ Ran("play_solution")
    /\ IF stage = "ready" /\ trackerChanged /\ solution # <<>>
       THEN /\ ferris' = Head(solution)
            /\ solution' = Tail(solution)
       ELSE UNCHANGED <<ferris, solution>>
    /\ trackerChanged' = FALSE
    /\ UNCHANGED <<level, gone, ferrisCount, stage, endPos, transform, timer,
                   commands, mapAdded, call>>

\* --------------------------------------------------------------- move_ferris

\* fn pos_to_translation, one axis, in strides of STEP_SIZE.
pos_to_translation(c) == c * TileSteps + TileSteps \div 2

\* One axis of the sprite after the first half of move_ferris: it snaps to the
\* target when that is one stride away or less and takes one stride otherwise.
Stride(from, target) ==
    IF Abs(target - from) <= 1 THEN target
    ELSE IF target > from THEN from + 1 ELSE from - 1

\* move_ferris that leaves the TargetTracker alone.
move_ferris_silent ==
    /\ CanRun("move_ferris")
    /\ Ran("move_ferris")
    /\ IF stage = "ready"
       THEN transform' = <<Stride(transform[1], pos_to_translation(ferris.pos[1])),
                           Stride(transform[2], pos_to_translation(ferris.pos[2]))>>
       ELSE UNCHANGED transform
    /\ UNCHANGED <<level, gone, ferrisCount, ferris, stage, endPos, solution, timer,
                   commands, mapAdded, call, trackerChanged>>

\* fn move_ferris: the counter of the TargetTracker goes up when the sprite
\* is at the cell of the character after the stride.
move_ferris ==
    /\ CanRun("move_ferris")
    /\ Ran("move_ferris")
    /\ IF stage = "ready"
       THEN LET tx == pos_to_translation(ferris.pos[1])
                ty == pos_to_translation(ferris.pos[2])
                moved == <<Stride(transform[1], tx), Stride(transform[2], ty)>>
            IN  /\ transform' = moved
                /\ trackerChanged' = (trackerChanged \/ moved = <<tx, ty>>)
       ELSE UNCHANGED <<transform, trackerChanged>>
    /\ UNCHANGED <<level, gone, ferrisCount, ferris, stage, endPos, solution, timer,
                   commands, mapAdded, call>>

\* ------------------------------------------------- process_loaded_tile_maps

\* asset_server.load("labyrinth.ldtk"): the one handle of the program.
MapHandle == 1
Handles == {MapHandle}

EventKinds == {"Created", "Modified", "Removed"}
AssetEvents == [kind : EventKinds, handle : Handles]

RECURSIVE SeqsUpTo(_, _)
SeqsUpTo(S, n) ==
    IF n = 0 THEN {<<>>}
    ELSE LET shorter == SeqsUpTo(S, n - 1)
         IN  shorter \cup {Append(q, e) : q \in shorter, e \in S}

\* The events one frame can deliver.
EventSeqs == SeqsUpTo(AssetEvents, MaxEvents)

\* changed_maps.into_iter().filter(|changed_handle| changed_handle == handle)
FilterRemoved(changed_maps, handle) ==
    SelectSeq(changed_maps, LAMBDA changed_handle : changed_handle = handle)

\* for event in map_events.iter() { match event { ... } }
RECURSIVE ChangedMaps(_, _)
ChangedMaps(events, changed_maps) ==
    IF events = <<>> THEN changed_maps
    ELSE LET event == Head(events)
         IN  ChangedMaps(Tail(events),
                 IF event.kind = "Removed"
                 THEN FilterRemoved(changed_maps, event.handle)
                 ELSE Append(changed_maps, event.handle))

\* The level plugin builds the tile layer anew when the asset of the map was
\* created or modified.
Rebuilds(events) ==
    \E i \in 1..Len(events) :
        events[i].kind \in {"Created", "Modified"} /\ events[i].handle = MapHandle

\* fn process_loaded_tile_maps for the events of this frame: every entry of
\* changed_maps despawns the characters the query holds and spawns one.  The
\* Transform of the map entity that the system also sets is no state of this
\* model.
process_loaded_tile_maps ==
    /\ CanRun("process_loaded_tile_maps")
    /\ Ran("process_loaded_tile_maps")
    /\ \E events \in EventSeqs :
         LET changed_maps == ChangedMaps(events, <<>>)
                             \o (IF mapAdded THEN <<MapHandle>> ELSE <<>>)
         IN  \E lv \in Levels :
               commands' = [commands EXCEPT
                   !.despawn = changed_maps # <<>>,
                   !.spawn = Len(changed_maps),
                   !.reload = IF Rebuilds(events) THEN <<lv>> ELSE <<>>]
    /\ mapAdded' = FALSE
    /\ UNCHANGED <<level, gone, ferrisCount, ferris, stage, endPos, transform,
                   trackerChanged, solution, timer, call>>

\* ------------------------------------------------------ the end of the frame

\* The stage applies the queued commands: despawn and spawn of characters
\* (Ferris { pos: UVec2::splat(0), keys: [false; 3] } with a new
\* TargetTracker), the bundle of init_ferris, the Solution of character_input;
\* the level plugin rebuilds the tile layer.
EndFrame ==
    /\ ran = Systems
    /\ ran' = {}
    /\ commands' = NoCommands
    /\ IF commands.reload # <<>>
       THEN level' = commands.reload[1] /\ gone' = {}
       ELSE UNCHANGED <<level, gone>>
    /\ IF commands.despawn
       THEN /\ ferrisCount' = commands.spawn
            /\ ferris' = MkFerris(<<0, 0>>, NoKeys)
            /\ stage' = "added"
            /\ endPos' = <<0, 0>>
            /\ transform' = <<0, 0>>
            /\ trackerChanged' = TRUE
            /\ solution' = <<>>
            /\ timer' = NewTimer
       ELSE /\ UNCHANGED <<ferrisCount, ferris, trackerChanged>>
            /\ IF commands.bundle # <<>>
               THEN /\ stage' = "ready"
                    /\ endPos' = commands.bundle[1]
                    /\ transform' = <<0, 0>>
                    /\ timer' = NewTimer
               ELSE UNCHANGED <<stage, endPos, transform, timer>>
            /\ solution' = IF commands.solution # <<>> THEN commands.solution[1]
                           ELSE solution
    /\ UNCHANGED <<mapAdded, call>>

\* ------------------------------------------------------------ specification

\* The state when the first frame starts: startup has spawned the map entity,
\* the tile layer of some layout is in place, no character exists yet.
Init ==
    /\ level \in Levels
    /\ gone = {}
    /\ ferrisCount = 0
    /\ ferris = MkFerris(<<0, 0>>, NoKeys)
    /\ stage = "none"
    /\ endPos = <<0, 0>>
    /\ transform = <<0, 0>>
    /\ trackerChanged = FALSE
    /\ solution = <<>>
    /\ timer = NewTimer
    /\ commands = NoCommands
    /\ mapAdded = TRUE
    /\ ran = {}
    /\ call = NoCall

Next ==
    \/ init_ferris
    \/ animate_character_system
    \/ character_input
    \/ play_solution
    \/ move_ferris
    \/ process_loaded_tile_maps
    \/ EndFrame

Spec == Init /\ [][Next]_vars

\* ------------------------------------------------ playback left to itself

\* A Solution with states to play is queued or attached.
Playing ==
    \/ solution # <<>>
    \/ commands.solution # <<>> /\ commands.solution[1] # <<>>

\* A step in which keyboard_input.get_just_pressed() and map_events.iter()
\* deliver nothing: character_input takes its step with new_pos at the cell
\* of the character and queues no Solution, process_loaded_tile_maps finds
\* changed_maps empty.
Quiet ==
    /\ "character_input" \notin ran /\ "character_input" \in ran' /\ stage = "ready"
       => LET r == Step(level, gone, ferris, NewPos(ferris.pos, {}))
          IN  /\ ferris' = r.ferris
              /\ gone' = r.gone
              /\ UNCHANGED <<commands, trackerChanged>>
    /\ "process_loaded_tile_maps" \notin ran /\ "process_loaded_tile_maps" \in ran'
       => commands' = [commands EXCEPT !.despawn = FALSE, !.spawn = 0, !.reload = <<>>]

\* The frames of the game when keyboard and asset server keep still from a
\* solve request until its Solution is played out.
LiveNext == Next /\ (Playing => Quiet)

\* App::run() goes on running frames, and each frame runs every system.
LiveSpec == Init /\ [][LiveNext]_vars /\ WF_vars(LiveNext)

\* ------------------------------------------------- the solver on its own

\* The cells of a layout that hold a key or a gate: those a step can despawn.
Removable(lv) ==
    {p \in DOMAIN Layout(lv) : Layout(lv)[p] # <<>> /\ Layout(lv)[p][1] \in 2..7}

KeySets == {<<a, b, c>> : a \in BOOLEAN, b \in BOOLEAN, c \in BOOLEAN}

\* The calls of solve that are tried: every layout with any of its keys and
\* gates despawned, the character on any listed cell with any inventory, the
\* goal on any listed cell.
Calls ==
    UNION {[lv : {lv}, gone : SUBSET Removable(lv),
            start : {MkFerris(p, k) : p \in DOMAIN Layout(lv), k \in KeySets},
            goal : DOMAIN Layout(lv), tie : {0, 1}, done : {FALSE}, path : {<<>>}]
           : lv \in SolverLevels}

SolveInit ==
    /\ call \in Calls
    /\ level = call.lv
    /\ gone = call.gone
    /\ ferrisCount = 1
    /\ ferris = call.start
    /\ stage = "ready"
    /\ endPos = call.goal
    /\ transform = <<0, 0>>
    /\ trackerChanged = FALSE
    /\ solution = <<>>
    /\ timer = NewTimer
    /\ commands = NoCommands
    /\ mapAdded = FALSE
    /\ ran = {}

\* solve(&mut map_query, ferris.clone(), &end_pos.0, &tile_query)
SolveCall ==
    /\ ~call.done
    /\ call' = [call EXCEPT !.done = TRUE,
                            !.path = solve(level, gone, ferris, endPos, call.tie)]
    /\ UNCHANGED gameVars

SolveSpec == SolveInit /\ [][SolveCall]_vars

\* ------------------------------------- the loop over the map events on its own

\* Handles of further LdtkAsset assets, whose events the reader delivers as
\* well.
EventHandles == MapHandle..(MapHandle + ExtraHandles)

\* The events of one update: up to MaxBurst of them in the order of arrival.
Bursts == SeqsUpTo([kind : EventKinds, handle : EventHandles], MaxBurst)

MapEventsInit ==
    /\ call \in [events : Bursts, done : {FALSE}, changed_maps : {<<>>}]
    /\ level = 1
    /\ gone = {}
    /\ ferrisCount = 0
    /\ ferris = MkFerris(<<0, 0>>, NoKeys)
    /\ stage = "none"
    /\ endPos = <<0, 0>>
    /\ transform = <<0, 0>>
    /\ trackerChanged = FALSE
    /\ solution = <<>>
    /\ timer = NewTimer
    /\ commands = NoCommands
    /\ mapAdded = FALSE
    /\ ran = {}

\* let mut changed_maps = Vec::default(); for event in map_events.iter() { ... }
MapEventsCall ==
    /\ ~call.done
    /\ call' = [call EXCEPT !.done = TRUE,
                            !.changed_maps = ChangedMaps(call.events, <<>>)]
    /\ UNCHANGED gameVars

MapEventsSpec == MapEventsInit /\ [][MapEventsCall]_vars

\* ------------------------------------------------------------- the claims

Range(q) == {q[i] : i \in 1..Len(q)}

\* Breadth-first search over successors from the states in frontier, all at
\* distance d from the start: the least number of steps to a state at
\* end_pos, or -1 when the search ends without one.
RECURSIVE BfsFrom(_, _, _, _, _, _)
BfsFrom(lv, gn, end_pos, frontier, seen, d) ==
    IF \E st \in frontier : st.pos = end_pos THEN d
    ELSE LET next == UNION {Range(successors(lv, gn, st)) : st \in frontier} \ seen
         IN  IF next = {} THEN -1
             ELSE BfsFrom(lv, gn, end_pos, next, seen \cup next, d + 1)

Shortest(lv, gn, start, end_pos) == BfsFrom(lv, gn, end_pos, {start}, {start}, 0)

\* C1: whenever the goal can be reached, the path that solve returns has as
\* many steps as the shortest path that breadth-first search finds over the
\* same successor rule.
C1_Admissible ==
    call.done /\ Shortest(call.lv, call.gone, call.start, call.goal) >= 0
    => Len(call.path) - 1 = Shortest(call.lv, call.gone, call.start, call.goal)

\* A call whose shortest path is longer than the straight distance to the goal.
C1_Witness ==
    /\ call.done
    /\ Len(call.path) - 1 > heuristic(call.goal, call.start)
    /\ Len(call.path) - 1 = Shortest(call.lv, call.gone, call.start, call.goal)

OrthogonalStep(p, q) == Abs(p[1] - q[1]) + Abs(p[2] - q[2]) = 1

\* is_legal_move of the specification: the cell is no wall and no gate whose
\* key bit is false in keys.
LegalCell(lv, gn, keys, p) ==
    LET t == TileAt(lv, gn, p)
    IN  \/ t = <<>>
        \/ t[1] \in {START_TILE, END_TILE} \cup (5..7)
        \/ t[1] \in 2..4 /\ keys[t[1] - 2 + 1]

\* C2: consecutive states of a returned path are one orthogonal step apart,
\* and the cell stepped onto is legal for the inventory before the step.
C2_Legality ==
    call.done =>
        \A i \in 1..(Len(call.path) - 1) :
            /\ OrthogonalStep(call.path[i].pos, call.path[i + 1].pos)
            /\ LegalCell(call.lv, call.gone, call.path[i].keys, call.path[i + 1].pos)

\* A returned path that takes a key and then passes the gate it opens.
C2_Witness ==
    /\ call.done
    /\ \E i \in 1..(Len(call.path) - 1) :
          LET t == TileAt(call.lv, call.gone, call.path[i + 1].pos)
          IN  t # <<>> /\ t[1] \in 2..4 /\ ~call.start.keys[t[1] - 2 + 1]

\* A step of character_input that requests a solve: it queues a Solution.
SolveRequested == commands.solution = <<>> /\ commands'.solution # <<>>

\* A step of play_solution that pops the head of the queue.
Popped ==
    /\ "play_solution" \notin ran /\ "play_solution" \in ran'
    /\ solution # <<>> /\ solution' = Tail(solution)

LevelCells == (0..GRID_MAX) \X (0..GRID_MAX)

\* The cells one orthogonal step from p.
Around(p) ==
    {<<p[1] + 1, p[2]>>, <<p[1] - 1, p[2]>>, <<p[1], p[2] + 1>>, <<p[1], p[2] - 1>>}

\* The in-bounds orthogonal neighbours of a cell.
Neighbours(p) == Around(p) \cap LevelCells

\* C3: for every in-bounds orthogonal neighbour, a manual step onto it is
\* accepted exactly if the solver emits a successor for it, and both end in
\* the same state.
C3_ManualAgreesWithSolver ==
    stage = "ready" =>
        \A q \in Neighbours(ferris.pos) :
            LET manual == Step(level, gone, ferris, q).ferris
                emitted == {st \in Range(successors(level, gone, ferris)) : st.pos = q}
            IN  /\ manual.pos = q <=> emitted # {}
                /\ manual.pos = q => emitted = {manual}

\* The states one legal step away, by is_legal_move of the specification: any
\* orthogonal neighbour that is a legal cell, a key cell setting its bit.
LegalSteps(lv, gn, st) ==
    {MkFerris(q, LET t == TileAt(lv, gn, q)
                 IN  IF t # <<>> /\ t[1] \in 5..7
                     THEN [st.keys EXCEPT ![t[1] - 5 + 1] = TRUE] ELSE st.keys)
     : q \in {q \in Around(st.pos) \cap AllPos : LegalCell(lv, gn, st.keys, q)}}

\* Whether some state at end_pos is reached from frontier by legal steps.
RECURSIVE LegalPathFrom(_, _, _, _, _)
LegalPathFrom(lv, gn, end_pos, frontier, seen) ==
    IF \E st \in frontier : st.pos = end_pos THEN TRUE
    ELSE LET next == UNION {LegalSteps(lv, gn, st) : st \in frontier} \ seen
         IN  IF next = {} THEN FALSE
             ELSE LegalPathFrom(lv, gn, end_pos, next, seen \cup next)

LegalPath(lv, gn, start, end_pos) == LegalPathFrom(lv, gn, end_pos, {start}, {start})

C5_QueueShape ==
    [][SolveRequested /\ Shortest(level, gone, ferris, endPos) >= 0
       => LET q == commands'.solution[1]
          IN  IF ferris.pos = endPos THEN q = <<>>
              ELSE /\ q # <<>>
                   /\ ferris \notin Range(q)
                   /\ OrthogonalStep(ferris.pos, q[1].pos)
                   /\ q[Len(q)].pos = endPos
                   /\ \A i \in 1..(Len(q) - 1) : q[i].pos # endPos]_vars

\* A queue of several states waits to be attached.
C5_Witness ==
    /\ commands.solution # <<>>
    /\ Len(commands.solution[1]) >= 3
    /\ commands.solution[1][3].pos = endPos

\* C6: a manual step onto a key cell sets the key's bit, moves the character
\* there and despawns the tile in that step; a manual step onto a gate whose
\* bit is set moves the character there and despawns the tile; and a
\* despawned tile stays away until the level is built anew.
C6_KeyAndGateSteps ==
    /\ [](stage = "ready" =>
            \A pressed \in SUBSET (KeyCodes \ {"R"}) :
                LET np == NewPos(ferris.pos, pressed)
                    t == TileAt(level, gone, np)
                    r == Step(level, gone, ferris, np)
                IN  /\ t # <<>> /\ t[1] \in 5..7
                       => /\ r.ferris.keys[t[1] - 5 + 1]
                          /\ r.ferris.pos = np
                          /\ TileAt(level, r.gone, np) = <<>>
                    /\ t # <<>> /\ t[1] \in 2..4 /\ ferris.keys[t[1] - 2 + 1]
                       => /\ r.ferris.pos = np
                          /\ r.ferris.keys = ferris.keys
                          /\ TileAt(level, r.gone, np) = <<>>)
    /\ [][(ran = Systems /\ commands.reload # <<>>) \/ gone \subseteq gone']_vars

\* The key of the first layout is taken and its gate passed, the character
\* on the cell of the gate.
C6_Witness ==
    /\ stage = "ready"
    /\ level = 1
    /\ gone = {<<1, 0>>, <<2, 0>>}
    /\ ferris = MkFerris(<<2, 0>>, <<TRUE, FALSE, FALSE>>)

\* C7 as claimed: a state is popped only when the periodic timer has just
\* finished an interval.
C7_TimerGated == [][Popped => timer.just_finished]_vars

\* C7 as amended: the queue in play changes only by play_solution popping
\* its head, once per frame and only when the TargetTracker was changed since
\* play_solution last ran; and with a changed tracker and a queue that is not
\* empty play_solution does pop, whatever the timer shows.
C7_TrackerGated ==
    [][/\ solution' # solution /\ ran # Systems
          => Popped /\ trackerChanged /\ ferris' = Head(solution)
       /\ "play_solution" \notin ran /\ "play_solution" \in ran'
          /\ stage = "ready" /\ trackerChanged /\ solution # <<>>
          => Popped]_vars

\* Playback has put the character on the key cell of the first layout (the
\* tile is still there) in a frame in which the timer did not finish.
C7_Witness ==
    /\ level = 1
    /\ "play_solution" \in ran
    /\ ferris.pos = <<1, 0>>
    /\ <<1, 0>> \notin gone
    /\ ~timer.just_finished

\* C8: once a solve is requested while an earlier queue is in play, no state
\* of the earlier queue is applied to the character any more.
C8_OldQueueDiscarded ==
    [][commands.solution # <<>> /\ solution # <<>> => ~Popped]_vars

HasTile(lv, idx) == \E p \in LevelCells : TileAt(lv, {}, p) = <<idx>>

\* The cell that a level load is to take for the tile idx: the cell of that
\* tile, (0,0) when the level has none.
IsCellOf(lv, idx, p) ==
    IF HasTile(lv, idx) THEN TileAt(lv, {}, p) = <<idx>> ELSE p = <<0, 0>>

\* C9: after a level load all key bits are false and the character stands
\* on the Start tile, on (0,0) when there is none; the goal position is the
\* cell of the Goal tile, (0,0) when there is none.
C9_LevelLoad ==
    /\ stage = "initing"
       => /\ ferris.keys = NoKeys
          /\ IsCellOf(level, START_TILE, ferris.pos)
          /\ commands.bundle # <<>> /\ IsCellOf(level, END_TILE, commands.bundle[1])
    /\ stage = "ready" => IsCellOf(level, END_TILE, endPos)

\* init_ferris has run on a level with neither a Start nor a Goal tile.
C9_Witness ==
    /\ stage = "initing"
    /\ ~HasTile(level, START_TILE) /\ ~HasTile(level, END_TILE)
    /\ ferris.pos = <<0, 0>>
    /\ commands.bundle = << <<0, 0>> >>

\* C10: the character, and every state of a sequence that solve returned,
\* lies in [0,15] x [0,15].
C10_InBounds ==
    /\ InLevel(ferris.pos)
    /\ \A i \in 1..Len(solution) : InLevel(solution[i].pos)
    /\ commands.solution # <<>>
       => \A i \in 1..Len(commands.solution[1]) : InLevel(commands.solution[1][i].pos)

\* C11: along a path that solve returned a key bit that is true in one state
\* is true in the state after it, hence in every later state.
C11_KeysMonotone ==
    call.done =>
        \A i \in 1..(Len(call.path) - 1) : \A k \in KeyIds :
            call.path[i].keys[k + 1] => call.path[i + 1].keys[k + 1]

\* A returned path that takes a key on its way and goes on for two more
\* steps at least.
C11_Witness ==
    /\ call.done
    /\ \E i \in 1..(Len(call.path) - 2) : \E k \in KeyIds :
          /\ ~call.start.keys[k + 1]
          /\ call.path[i].keys[k + 1]
          /\ call.path[Len(call.path)].keys[k + 1]


\* The end of a frame that replaces the character by a new one.
CharacterReset == ran = Systems /\ commands.despawn

\* C12: a key bit of the character that is true stays true in every step
\* but the one that replaces the character on a level load.
C12_KeysKept ==
    [][CharacterReset
       \/ \A k \in KeyIds : ferris.keys[k + 1] => ferris'.keys[k + 1]]_vars


\* C13: every step of playback moves the character by one orthogonal step
\* from the cell it held before the step.
C13_PlaybackStepsByOne ==
    [][Popped => OrthogonalStep(ferris.pos, ferris'.pos)]_vars

\* A step of character_input.
InputStep == "character_input" \notin ran /\ "character_input" \in ran'

\* C14: one run of character_input leaves the character where it is or moves
\* it by one orthogonal step.
C14_ManualStepsByOne ==
    [][InputStep => ferris'.pos = ferris.pos \/ OrthogonalStep(ferris.pos, ferris'.pos)]_vars


\* The tile t is a wall: neither Start, Goal, key nor gate.
IsWall(t) == t # <<>> /\ t[1] \notin (2..7) \cup {START_TILE, END_TILE}

\* The tile t is a gate whose key bit is false in keys.
IsLockedGate(t, keys) == t # <<>> /\ t[1] \in 2..4 /\ ~keys[t[1] - 2 + 1]

\* C15: a manual step whose target cell holds a wall, or a gate whose key
\* bit is false, leaves position, inventory and tiles as they are.
C15_Rejected ==
    stage = "ready" =>
        \A pressed \in SUBSET (KeyCodes \ {"R"}) :
            LET np == NewPos(ferris.pos, pressed)
                t == TileAt(level, gone, np)
                r == Step(level, gone, ferris, np)
            IN  IsWall(t) \/ IsLockedGate(t, ferris.keys)
                => r.ferris = ferris /\ r.gone = gone

\* character_input has run with the character between a locked gate and a
\* wall.
C15_Witness ==
    /\ stage = "ready"
    /\ "character_input" \in ran
    /\ IsLockedGate(TileAt(level, gone, NewPos(ferris.pos, {"Right"})), ferris.keys)
    /\ IsWall(TileAt(level, gone, NewPos(ferris.pos, {"Up"})))


\* The cell p holds a tile that a step of a character with these keys takes
\* away: a key, or a gate whose key bit is true.
HoldsRemovable(lv, gn, keys, p) ==
    LET t == TileAt(lv, gn, p)
    IN  t # <<>> /\ (t[1] \in 5..7 \/ (t[1] \in 2..4 /\ keys[t[1] - 2 + 1]))

\* C16: tiles go away only in a step of character_input (and come back only
\* when the level is built anew), and when playback takes the character on,
\* the cell it leaves holds no key and no gate that the character has the key
\* for: the tile of a cell that playback moved it onto is gone by then.  On
\* the layouts of the game a character stands on such a tile only when
\* playback has put it there.
C16_TilesFollowSteps ==
    [][/\ gone' # gone => InputStep \/ ran = Systems
       /\ Popped => ~HoldsRemovable(level, gone, ferris.keys, ferris.pos)]_vars


\* C17: when a solve request has queued a Solution with states to play and
\* neither keys nor map events arrive while it is queued or in play, the
\* queue runs empty and the character stands on the goal position.
C17_PlaybackCompletes ==
    (commands.solution # <<>> /\ commands.solution[1] # <<>>)
        ~> (commands.solution = <<>> /\ solution = <<>> /\ ferris.pos = endPos)

\* Playback has taken the character of the first layout through the gate to
\* the goal: the tile of the gate is still there, which a manual step would
\* have despawned.
C17_Witness ==
    /\ level = 1
    /\ stage = "ready"
    /\ commands.solution = <<>> /\ solution = <<>>
    /\ ferris = MkFerris(<<3, 0>>, <<TRUE, FALSE, FALSE>>)
    /\ endPos = <<3, 0>>
    /\ <<2, 0>> \notin gone


\* The events from place i on hold no event of handle h.
QuietFrom(events, i, h) == \A n \in i..Len(events) : events[n].handle # h

\* C18: when a map is modified and later in the same update removed (and not
\* touched again), its handle is not among the changed maps; and a map that
\* is modified after that removal, with no removal behind it, is among them.
C18_RemovedMapIgnored ==
    call.done =>
        \A j \in 1..Len(call.events) :
            call.events[j].kind = "Removed" =>
                LET h == call.events[j].handle
                IN  /\ /\ \E i \in 1..(j - 1) :
                             call.events[i] = [kind |-> "Modified", handle |-> h]
                       /\ QuietFrom(call.events, j + 1, h)
                       => h \notin Range(call.changed_maps)
                    /\ \A i \in (j + 1)..Len(call.events) :
                          /\ call.events[i].kind = "Modified"
                          /\ call.events[i].handle # h
                          /\ \A n \in (i + 1)..Len(call.events) :
                                call.events[n].kind # "Removed"
                          => call.events[i].handle \in Range(call.changed_maps)


\* C19: there is never more than one entity with a Ferris component.
C19_OneCharacter == ferrisCount <= 1

====
